---- MODULE Spec2Model ----
(***************************************************************************)
(* The hybrid memory subsystem of mle/utils/memory.py:                     *)
(*   LanceDBMemory  - the fast tier, named tables of rows                  *)
(*   Mem0           - the slow tier, items scoped by agent_id              *)
(*   HybridMemory   - the coordinator and its consolidation algorithms     *)
(* Every public method is one action; the last call, its arguments and its *)
(* outcome are kept in the variable call.                                  *)
(***************************************************************************)
EXTENDS Integers, Sequences, FiniteSets, TLC

VARIABLES tables,   \* LanceDBMemory.client: table name -> [exists, rows]
          slow,     \* Mem0.client: the stored items of every agent, in listing order
          call      \* the last call: its name, arguments, return value and error

vars == <<tables, slow, call>>

(***************************** bounds **************************************)
MaxRows == 2        \* rows the fast-tier database may hold, all tables together
MaxSlow == 2        \* items of its agent the coordinator adds to the slow store
MaxPulled == 3      \* items of a slow store that exists before the coordinator

(************************** program constants ******************************)
DefaultLimit == 1000
DefaultNResults == 5
DefaultTable == "memory"
DefaultAgent == "default"

(***************************** input sets **********************************)
TableNames == {DefaultTable, "notes"}
TableArgs == {"", "notes"}                 \* "" stands for table_name=None
Texts == {"a", "b"}
UuidBase == 100                            \* ids LanceDBMemory generates are above it
SlowBase == 200                            \* ids the slow store generates are above it
OtherAgent == "other"

\* arguments of LanceDBMemory.add
TextsArgs == {[kind |-> "str", val |-> "a"], [kind |-> "list", val |-> <<"a", "b">>]}
IdsArgs == {<<>>, <<2, 1>>}                \* <<>>: ids=None
RecordIds == {1, UuidBase + 1}             \* ids looked up or deleted

\* metadata values: None, or a mapping whose "priority" is p (0: key absent)
NoneMeta == [kind |-> "None", priority |-> 0]
Dict(p) == [kind |-> "dict", priority |-> p]
NoMetadataArg == [kind |-> "None", val |-> <<>>]
MetadataArgs == {NoMetadataArg, [kind |-> "dict", val |-> Dict(1)],
                 [kind |-> "list", val |-> <<Dict(1), NoneMeta>>]}

Min(a, b) == IF a < b THEN a ELSE b
Take(s, n) == SubSeq(s, 1, Min(n, Len(s)))
Absent == [exists |-> FALSE, rows |-> <<>>]

(*************************** LanceDBMemory *********************************)
\* table_name or self.table_name
TableName(table_name) == IF table_name = "" THEN DefaultTable ELSE table_name

\* _open_table: the table, or None (found = FALSE) when it does not exist
OpenTable(tbls, table_name) ==
    LET t == TableName(table_name)
    IN  [found |-> tbls[t].exists, name |-> t, rows |-> tbls[t].rows]

\* if isinstance(texts, str): texts = (texts,)
NormTexts(texts) == IF texts.kind = "str" THEN <<texts.val>> ELSE texts.val

\* the metadata list that is zipped with the texts
NormMetadata(texts, metadata) ==
    IF metadata.kind = "None" THEN [i \in 1..Len(texts) |-> NoneMeta]
    ELSE IF metadata.kind = "dict" THEN <<metadata.val>>
    ELSE metadata.val

\* an add whose length check was left out
AddAssertSkipped(texts, metadata) == TRUE

\* assert len(texts) == len(metadata), reached only for a list
AddAssertOk(texts, metadata) ==
    metadata.kind = "list" => Len(texts) = Len(metadata.val)

\* [str(uuid.uuid4()) for _ in range(n)]: n values that differ from each other
\* and from every id in use. Which fresh values they are is immaterial, so
\* they are the n smallest generated ids not in use.
FreshIds(base, used, n) ==
    LET free == ((base + 1)..(base + Cardinality(used) + n)) \ used
    IN  [i \in 1..n |-> CHOOSE x \in free : Cardinality({y \in free : y < x}) = i - 1]

NewUuids(used, n) == FreshIds(UuidBase, used, n)

\* ids or [uuid4 ...]
FinalIds(ids, used, n) == IF ids # <<>> THEN ids ELSE NewUuids(used, n)

SeqRange(q) == {q[i] : i \in 1..Len(q)}

\* zip(ids, texts, embeds, metadata): as long as the shortest of them
ZipData(ids, texts, metadata) ==
    [i \in 1..Min(Len(ids), Min(Len(texts), Len(metadata))) |->
        [id |-> ids[i], text |-> texts[i], metadata |-> metadata[i]]]

\* a write that creates the table anew whether or not it exists
WriteDataOverwrite(tbls, t, data) ==
    [tbls EXCEPT ![t] = [exists |-> TRUE, rows |-> data]]

\* create_table(table_name, data) when absent, else open_table(...).add(data)
WriteData(tbls, t, data) ==
    IF ~tbls[t].exists
    THEN [tbls EXCEPT ![t] = [exists |-> TRUE, rows |-> data]]
    ELSE [tbls EXCEPT ![t].rows = @ \o data]

\* LanceDBMemory.add; embedOk = FALSE: compute_source_embeddings raises
LanceAdd(tbls, used, textsArg, metadataArg, table_name, idsArg, embedOk) ==
    LET texts == NormTexts(textsArg)
    IN  IF ~AddAssertOk(texts, metadataArg)
        THEN [tables |-> tbls, ret |-> <<>>, err |-> "AssertionError"]
        ELSE IF ~embedOk
        THEN [tables |-> tbls, ret |-> <<>>, err |-> "UpstreamError"]
        ELSE LET metadata == NormMetadata(texts, metadataArg)
                 t == TableName(table_name)
                 ids == FinalIds(idsArg, used, Len(texts))
                 data == ZipData(ids, texts, metadata)
             IN  [tables |-> WriteData(tbls, t, data), ret |-> ids, err |-> "none"]

\* table.search(query).limit(n).to_list(): nearest rows first. The embedding
\* distance of two texts is 0 when they are equal and 1 otherwise.
Search(rows, query, n_results) ==
    Take(SelectSeq(rows, LAMBDA r : r.text = query)
         \o SelectSeq(rows, LAMBDA r : r.text # query), n_results)

\* LanceDBMemory.query
LanceQuery(tbls, query_texts, table_name, n_results) ==
    LET table == OpenTable(tbls, table_name)
    IN  IF ~table.found THEN <<>>
        ELSE [i \in 1..Len(query_texts) |-> Search(table.rows, query_texts[i], n_results)]

\* LanceDBMemory.list_all_keys
LanceListAllKeys(tbls, table_name) ==
    LET table == OpenTable(tbls, table_name)
    IN  IF ~table.found THEN <<>>
        ELSE [i \in 1..Len(table.rows) |-> table.rows[i].id]

\* LanceDBMemory.get: where id = record_id, limit 1
LanceGet(tbls, record_id, table_name) ==
    LET table == OpenTable(tbls, table_name)
    IN  IF ~table.found THEN <<>>
        ELSE Take(SelectSeq(table.rows, LAMBDA r : r.id = record_id), 1)

\* LanceDBMemory.get_by_metadata over the key "priority"
LanceGetByMetadata(tbls, value, table_name, n_results) ==
    LET table == OpenTable(tbls, table_name)
    IN  IF ~table.found THEN <<>>
        ELSE Take(SelectSeq(table.rows,
                    LAMBDA r : r.metadata.kind = "dict" /\ r.metadata.priority = value),
                  n_results)

\* a delete that opens its table by creating it when it is missing
LanceDeleteCreating(tbls, record_id, table_name) ==
    LET t == TableName(table_name)
    IN  [tables |-> [tbls EXCEPT ![t] = [exists |-> TRUE,
                                         rows |-> SelectSeq(@.rows,
                                                    LAMBDA r : r.id # record_id)]],
         ret |-> IF tbls[t].exists THEN "client" ELSE "True"]

\* LanceDBMemory.delete: the tables afterwards and the value returned
LanceDelete(tbls, record_id, table_name) ==
    LET table == OpenTable(tbls, table_name)
    IN  IF ~table.found THEN [tables |-> tbls, ret |-> "True"]
        ELSE [tables |-> [tbls EXCEPT ![table.name].rows =
                            SelectSeq(@, LAMBDA r : r.id # record_id)],
              ret |-> "client"]

\* LanceDBMemory.delete_by_metadata over the key "priority"
LanceDeleteByMetadata(tbls, value, table_name) ==
    LET table == OpenTable(tbls, table_name)
    IN  IF ~table.found THEN [tables |-> tbls, ret |-> "True"]
        ELSE [tables |-> [tbls EXCEPT ![table.name].rows =
                            SelectSeq(@, LAMBDA r : ~(r.metadata.kind = "dict"
                                                     /\ r.metadata.priority = value))],
              ret |-> "client"]

\* a drop that forgets its argument and always drops the default table
LanceDropDefault(tbls, table_name) ==
    IF ~tbls[DefaultTable].exists THEN [tables |-> tbls, ret |-> "True"]
    ELSE [tables |-> [tbls EXCEPT ![DefaultTable] = Absent], ret |-> "client"]

\* LanceDBMemory.drop; on an existing table the value of client.drop_table
LanceDrop(tbls, table_name) ==
    LET table == OpenTable(tbls, table_name)
    IN  IF ~table.found THEN [tables |-> tbls, ret |-> "True"]
        ELSE [tables |-> [tbls EXCEPT ![table.name] = Absent], ret |-> "client"]

\* LanceDBMemory.count
LanceCount(tbls, table_name) ==
    LET table == OpenTable(tbls, table_name)
    IN  IF ~table.found THEN 0 ELSE Len(table.rows)

\* LanceDBMemory.reset: self.drop()
LanceReset(tbls) == LanceDrop(tbls, "").tables

(******************************** Mem0 *************************************)
\* a slow-tier item as client.get_all lists it; updated_at = 0: absent (None)
SlowItem(id, memory, metadata, created_at, updated_at, agent_id) ==
    [id |-> id, memory |-> memory, metadata |-> metadata,
     created_at |-> created_at, updated_at |-> updated_at, agent_id |-> agent_id]

\* what the client does with one call of add(messages, infer=True) is the
\* client's choice; here it either stores the message as a new memory or
\* keeps nothing of it. With infer=False it always stores the message.
Decisions(infer) == {"ADD"} \cup (IF infer THEN {"NONE"} ELSE {})

\* Mem0.add: client.add(messages, metadata, prompt, infer, agent_id) with one
\* message of content text, at the client's time t
Mem0Add(store, used, agent_id, text, metadata, infer, t, decision) ==
    IF ~infer \/ decision = "ADD"
    THEN [slow |-> Append(store, SlowItem(FreshIds(SlowBase, used, 1)[1], text, metadata,
                                          t, 0, agent_id)),
          event |-> "ADD"]
    ELSE [slow |-> store, event |-> "NONE"]

\* Mem0.query: client.search(...) is called and its result dropped; the method
\* has no return statement, so the caller gets None
Mem0Query(store, agent_id, query_text, n_results) == [kind |-> "None", val |-> <<>>]

\* Mem0.get_all: client.get_all(agent_id, filters, limit)["results"]
Mem0GetAll(store, agent_id, n_results) ==
    Take(SelectSeq(store, LAMBDA x : x.agent_id = agent_id), n_results)

\* Mem0.reset: client.reset() takes no agent_id and clears the whole store
Mem0Reset(store) == <<>>

(***************************** HybridMemory ********************************)
\* sorted(items, key, reverse): Python's sort is stable, also with reverse=True.
\* keys[i] is the key of items[i]; position i comes before position j when
\* its key is better, or equal and i < j.
Before(keys, reverse, i, j) ==
    \/ (IF reverse THEN keys[i] > keys[j] ELSE keys[i] < keys[j])
    \/ (keys[i] = keys[j] /\ i < j)

PySorted(items, keys, reverse) ==
    LET n == Len(items)
        Rank(i) == 1 + Cardinality({j \in 1..n : Before(keys, reverse, j, i)})
    IN  [r \in 1..n |-> items[CHOOSE i \in 1..n : Rank(i) = r]]

\* a coordinator add that also writes the message through to fast memory
HybridAddWriteThrough(tbls, store, used, agent_id, text, metadata, prompt, t, decision) ==
    LET r == Mem0Add(store, used, agent_id, text, metadata, prompt # "", t, decision)
    IN  [tables |-> LanceAdd(tbls, used, [kind |-> "str", val |-> text], NoMetadataArg,
                             "", <<>>, TRUE).tables,
         slow |-> r.slow, event |-> r.event]

\* HybridMemory.add: slow_memory.add(..., infer=prompt is not None); "" is None
HybridAdd(tbls, store, used, agent_id, text, metadata, prompt, t, decision) ==
    LET r == Mem0Add(store, used, agent_id, text, metadata, prompt # "", t, decision)
    IN  [tables |-> tbls, slow |-> r.slow, event |-> r.event]

\* HybridMemory.query
HybridQuery(tbls, store, agent_id, query, n_results, fast_query) ==
    LET results == LanceQuery(tbls, <<query>>, "", n_results)
    IN  IF fast_query THEN [ret |-> results, err |-> "none"]
        ELSE LET more == Mem0Query(store, agent_id, query, n_results)
             IN  IF more.kind = "None"
                 THEN [ret |-> <<>>, err |-> "TypeError"]   \* results.extend(None)
                 ELSE [ret |-> results \o more.val, err |-> "none"]

\* a reset that ignores its flag and resets both tiers
HybridResetBoth(tbls, store, only_reset_slow_memory) ==
    [slow |-> Mem0Reset(store), tables |-> LanceReset(tbls)]

\* HybridMemory.reset
HybridReset(tbls, store, only_reset_slow_memory) ==
    [slow |-> Mem0Reset(store),
     tables |-> IF ~only_reset_slow_memory THEN LanceReset(tbls) ELSE tbls]

\* a push that stores the copy under the id of the slow-tier item
PushOneKeepingId(tbls, used, item, ok) ==
    LanceAdd(tbls, used, [kind |-> "list", val |-> <<item.memory>>], NoMetadataArg, "",
             <<item.id>>, ok)

\* a push that hands the item's metadata on to fast memory
PushOneWithMetadata(tbls, used, item, ok) ==
    LanceAdd(tbls, used, [kind |-> "list", val |-> <<item.memory>>],
             IF item.metadata.kind = "None" THEN NoMetadataArg
             ELSE [kind |-> "dict", val |-> item.metadata],
             "", <<>>, ok)

\* one push of a consolidation, the same in last_n_consolidate and in
\* top_k_consolidate: fast_memory.add(texts=[item["memory"]]), no metadata,
\* no table_name, no ids; ok = FALSE: the add raises
PushOne(tbls, used, item, ok) ==
    LanceAdd(tbls, used, [kind |-> "list", val |-> <<item.memory>>], NoMetadataArg, "",
             <<>>, ok)

\* the push phase of a consolidation: one push for item j, j+1, ... in turn;
\* the failAt-th push raises (0: none does) and ends the loop
RECURSIVE PushItems(_, _, _, _, _)
PushItems(tbls, used, items, j, failAt) ==
    IF j > Len(items) THEN [tables |-> tbls, err |-> "none"]
    ELSE LET r == PushOne(tbls, used, items[j], j # failAt)
         IN  IF r.err # "none" THEN [tables |-> r.tables, err |-> r.err]
             ELSE PushItems(r.tables, used \cup SeqRange(r.ret), items, j + 1, failAt)

\* a sort key that never looks at updated_at
LastNKeyCreatedOnly(x) == x.created_at

\* x.get("updated_at") or x.get("created_at"), parsed as a timestamp
LastNKey(x) == IF x.updated_at # 0 THEN x.updated_at ELSE x.created_at

\* the items last_n_consolidate selects: sorted(...)[:n]
LastNItems(items, n) ==
    Take(PySorted(items, [i \in 1..Len(items) |-> LastNKey(items[i])], TRUE), n)

\* a consolidation that moves: it removes from the slow store what it selected
LastNConsolidateMoving(tbls, store, used, agent_id, n, limit, failAt) ==
    LET items == Mem0GetAll(store, agent_id, limit)
        last_n_items == LastNItems(items, n)
        r == PushItems(tbls, used, last_n_items, 1, failAt)
    IN  [tables |-> r.tables,
         slow |-> SelectSeq(store, LAMBDA x : \A i \in 1..Len(last_n_items) :
                                                last_n_items[i].id # x.id),
         err |-> r.err,
         ret |-> IF r.err = "none" THEN last_n_items ELSE <<>>]

\* HybridMemory.last_n_consolidate
LastNConsolidate(tbls, store, used, agent_id, n, limit, failAt) ==
    LET items == Mem0GetAll(store, agent_id, limit)
        last_n_items == LastNItems(items, n)
        r == PushItems(tbls, used, last_n_items, 1, failAt)
    IN  [tables |-> r.tables, slow |-> store, err |-> r.err,
         ret |-> IF r.err = "none" THEN last_n_items ELSE <<>>]

\* x["metadata"].get(metadata_key) over the key "priority"; 0 is None
TopKKey(x) == x.metadata.priority

\* the error sorted(...) raises in top_k_consolidate, if any: the key of an item
\* whose metadata is None cannot be computed, and None compares with nothing
TopKSortError(items) ==
    IF \E i \in 1..Len(items) : items[i].metadata.kind = "None" THEN "AttributeError"
    ELSE IF Len(items) >= 2 /\ \E i \in 1..Len(items) : TopKKey(items[i]) = 0
    THEN "TypeError"
    ELSE "none"

\* a selection that sorts ascending whatever reverse says
TopKItemsAscending(items, k, reverse) ==
    Take(PySorted(items, [i \in 1..Len(items) |-> TopKKey(items[i])], FALSE), k)

\* the items top_k_consolidate selects: sorted(...)[:k]
TopKItems(items, k, reverse) ==
    Take(PySorted(items, [i \in 1..Len(items) |-> TopKKey(items[i])], reverse), k)

\* a top_k_consolidate that undoes its pushes when one of them fails
TopKConsolidateAtomic(tbls, store, used, agent_id, k, reverse, limit, failAt) ==
    LET items == Mem0GetAll(store, agent_id, limit)
        sortErr == TopKSortError(items)
    IN  IF sortErr # "none"
        THEN [tables |-> tbls, slow |-> store, err |-> sortErr, ret |-> <<>>]
        ELSE LET topk_items == TopKItems(items, k, reverse)
                 r == PushItems(tbls, used, topk_items, 1, failAt)
             IN  [tables |-> IF r.err = "none" THEN r.tables ELSE tbls,
                  slow |-> store, err |-> r.err,
                  ret |-> IF r.err = "none" THEN topk_items ELSE <<>>]

\* HybridMemory.top_k_consolidate over metadata_key = "priority"
TopKConsolidate(tbls, store, used, agent_id, k, reverse, limit, failAt) ==
    LET items == Mem0GetAll(store, agent_id, limit)
        sortErr == TopKSortError(items)
    IN  IF sortErr # "none"
        THEN [tables |-> tbls, slow |-> store, err |-> sortErr, ret |-> <<>>]
        ELSE LET topk_items == TopKItems(items, k, reverse)
                 r == PushItems(tbls, used, topk_items, 1, failAt)
             IN  [tables |-> r.tables, slow |-> store, err |-> r.err,
                  ret |-> IF r.err = "none" THEN topk_items ELSE <<>>]

\* a prompt_based_consolidate that quietly does nothing
PromptBasedConsolidateSilent(tbls, store, prompt) ==
    [tables |-> tbls, slow |-> store, err |-> "none"]

\* HybridMemory.prompt_based_consolidate: raise NotImplementedError
PromptBasedConsolidate(tbls, store, prompt) ==
    [tables |-> tbls, slow |-> store, err |-> "NotImplementedError"]

\* rows held by all the tables together
RECURSIVE TotalRows(_, _)
TotalRows(tbls, names) ==
    IF names = {} THEN 0
    ELSE LET t == CHOOSE x \in names : TRUE
         IN  Len(tbls[t].rows) + TotalRows(tbls, names \ {t})

\* the ids in use: those of every fast-tier row and every slow-tier item
UsedIds ==
    UNION {{tables[t].rows[i].id : i \in 1..Len(tables[t].rows)} : t \in TableNames}
    \cup {slow[i].id : i \in 1..Len(slow)}

(************************ actions: the fast tier ***************************)
FastAdd ==
    \E texts \in TextsArgs, metadata \in MetadataArgs, table_name \in TableArgs,
       ids \in IdsArgs :
        LET r == LanceAdd(tables, UsedIds, texts, metadata, table_name, ids, TRUE)
        IN  /\ TotalRows(r.tables, TableNames) <= MaxRows
            /\ tables' = r.tables
            /\ call' = [op |-> "fast.add", texts |-> texts, metadata |-> metadata,
                        table |-> TableName(table_name), ids |-> ids,
                        ret |-> r.ret, err |-> r.err]
            /\ UNCHANGED slow

FastQuery ==
    \E query_texts \in {<<"b", "a">>}, table_name \in TableArgs, n_results \in {1} :
        /\ call' = [op |-> "fast.query", query_texts |-> query_texts,
                    table |-> TableName(table_name), n_results |-> n_results,
                    ret |-> LanceQuery(tables, query_texts, table_name, n_results),
                    err |-> "none"]
        /\ UNCHANGED <<tables, slow>>

FastGet ==
    \E record_id \in RecordIds, table_name \in TableArgs :
        /\ call' = [op |-> "fast.get", record_id |-> record_id,
                    table |-> TableName(table_name),
                    ret |-> LanceGet(tables, record_id, table_name), err |-> "none"]
        /\ UNCHANGED <<tables, slow>>

FastDelete ==
    \E record_id \in RecordIds, table_name \in TableArgs :
        LET r == LanceDelete(tables, record_id, table_name)
        IN  /\ tables' = r.tables
            /\ call' = [op |-> "fast.delete", record_id |-> record_id,
                        table |-> TableName(table_name), ret |-> r.ret, err |-> "none"]
            /\ UNCHANGED slow

FastDeleteByMetadata ==
    \E value \in {1}, table_name \in TableArgs :
        LET r == LanceDeleteByMetadata(tables, value, table_name)
        IN  /\ tables' = r.tables
            /\ call' = [op |-> "fast.delete_by_metadata", value |-> value,
                        table |-> TableName(table_name), ret |-> r.ret, err |-> "none"]
            /\ UNCHANGED slow

FastDrop ==
    \E table_name \in TableArgs :
        LET r == LanceDrop(tables, table_name)
        IN  /\ tables' = r.tables
            /\ call' = [op |-> "fast.drop", table |-> TableName(table_name),
                        ret |-> r.ret, err |-> "none"]
            /\ UNCHANGED slow

FastCount ==
    \E table_name \in TableArgs :
        /\ call' = [op |-> "fast.count", table |-> TableName(table_name),
                    ret |-> LanceCount(tables, table_name), err |-> "none"]
        /\ UNCHANGED <<tables, slow>>

FastListAllKeys ==
    \E table_name \in TableArgs :
        /\ call' = [op |-> "fast.list_all_keys", table |-> TableName(table_name),
                    ret |-> LanceListAllKeys(tables, table_name), err |-> "none"]
        /\ UNCHANGED <<tables, slow>>

FastGetByMetadata ==
    \E value \in {1}, table_name \in TableArgs, n_results \in {1} :
        /\ call' = [op |-> "fast.get_by_metadata", value |-> value,
                    table |-> TableName(table_name), n_results |-> n_results,
                    ret |-> LanceGetByMetadata(tables, value, table_name, n_results),
                    err |-> "none"]
        /\ UNCHANGED <<tables, slow>>

FastReset ==
    /\ tables' = LanceReset(tables)
    /\ call' = [op |-> "fast.reset", err |-> "none"]
    /\ UNCHANGED slow

NoCall == [op |-> "init", err |-> "none"]

InitFast ==
    /\ tables = [t \in TableNames |-> Absent]
    /\ slow = <<>>
    /\ call = NoCall

NextFast ==
    \/ FastAdd
    \/ FastQuery
    \/ FastGet
    \/ FastDelete
    \/ FastDeleteByMetadata
    \/ FastDrop
    \/ FastCount
    \/ FastListAllKeys
    \/ FastGetByMetadata
    \/ FastReset

SpecFast == InitFast /\ [][NextFast]_vars

(*********************** actions: the coordinator **************************)
AddMetas == {NoneMeta, Dict(1)}
Limits == {2, DefaultLimit}
Counts == {1, 2}                           \* the n and k of a consolidation
Prompts == {"p", "anything"}                      \* prompts of prompt_based_consolidate
OwnItems(store) == SelectSeq(store, LAMBDA x : x.agent_id = DefaultAgent)

HAdd ==
    \E text \in Texts, metadata \in AddMetas, prompt \in {"", "p"}, t \in {1} :
      \E decision \in Decisions(prompt # "") :
        LET r == HybridAdd(tables, slow, UsedIds, DefaultAgent, text, metadata, prompt, t,
                           decision)
        IN  /\ Len(OwnItems(r.slow)) <= MaxSlow
            /\ tables' = r.tables
            /\ slow' = r.slow
            /\ call' = [op |-> "add", text |-> text, metadata |-> metadata,
                        prompt |-> prompt, ret |-> r.event, err |-> "none"]

HQuery ==
    \E query \in {"a"}, n_results \in {DefaultNResults}, fast_query \in BOOLEAN :
        LET r == HybridQuery(tables, slow, DefaultAgent, query, n_results, fast_query)
        IN  /\ call' = [op |-> "query", query |-> query, n_results |-> n_results,
                        fast_query |-> fast_query, ret |-> r.ret, err |-> r.err]
            /\ UNCHANGED <<tables, slow>>

HReset ==
    \E only_reset_slow_memory \in BOOLEAN :
        LET r == HybridReset(tables, slow, only_reset_slow_memory)
        IN  /\ tables' = r.tables
            /\ slow' = r.slow
            /\ call' = [op |-> "reset", only_reset_slow_memory |-> only_reset_slow_memory,
                        err |-> "none"]

\* last_n_consolidate(n, limit); the failAt-th push raises (0: none does)
LastNStep(limits, failures) ==
    \E n \in Counts, limit \in limits :
      \E failAt \in (0..n) \cap failures :
        LET r == LastNConsolidate(tables, slow, UsedIds, DefaultAgent, n, limit, failAt)
        IN  /\ Len(r.tables[DefaultTable].rows) <= MaxRows
            /\ tables' = r.tables
            /\ slow' = r.slow
            /\ call' = [op |-> "last_n_consolidate", n |-> n, limit |-> limit,
                        failAt |-> IF r.err = "none" THEN 0 ELSE failAt,
                        ret |-> r.ret, err |-> r.err]

\* top_k_consolidate(k, "priority", reverse, limit)
TopKStep(limits, failures) ==
    \E k \in Counts, reverse \in BOOLEAN, limit \in limits :
      \E failAt \in (0..k) \cap failures :
        LET r == TopKConsolidate(tables, slow, UsedIds, DefaultAgent, k, reverse, limit,
                                 failAt)
        IN  /\ Len(r.tables[DefaultTable].rows) <= MaxRows
            /\ tables' = r.tables
            /\ slow' = r.slow
            /\ call' = [op |-> "top_k_consolidate", k |-> k, reverse |-> reverse,
                        limit |-> limit,
                        failAt |-> IF r.err = "UpstreamError" THEN failAt ELSE 0,
                        ret |-> r.ret, err |-> r.err]

\* prompt_based_consolidate(prompt)
HPromptBased ==
    \E prompt \in Prompts :
        LET r == PromptBasedConsolidate(tables, slow, prompt)
        IN  /\ tables' = r.tables
            /\ slow' = r.slow
            /\ call' = [op |-> "prompt_based_consolidate", prompt |-> prompt,
                        err |-> r.err]

HLastN == LastNStep({DefaultLimit}, {0, 1, 2})

HTopK == TopKStep({DefaultLimit}, {0, 1, 2})

\* the database on disk when the coordinator is built holds a table another
\* component wrote, and the slow store an item of another agent sharing it
Init ==
    /\ tables = [t \in TableNames |->
                   IF t = "notes"
                   THEN [exists |-> TRUE,
                         rows |-> <<[id |-> 1, text |-> "a", metadata |-> NoneMeta]>>]
                   ELSE Absent]
    /\ slow = <<SlowItem(2, "b", Dict(1), 1, 0, OtherAgent)>>
    /\ call = NoCall

Next ==
    \/ HAdd
    \/ HQuery
    \/ HReset
    \/ HLastN
    \/ HTopK
    \/ HPromptBased

Spec == Init /\ [][Next]_vars

(************************ claims on the coordinator ***********************)
DefaultRows == tables[DefaultTable].rows
IsConsolidate(op) == op \in {"last_n_consolidate", "top_k_consolidate"}

\* C1: reset() with only_reset_slow_memory=True (the default) leaves every
\* fast-memory table, rows and count, as it was, and the slow store holds no
\* item of the agent afterwards; with the flag False the default table, and
\* only it, is dropped.
ResetKeepsFastMemory ==
    [][call'.op = "reset" =>
        /\ Mem0GetAll(slow', DefaultAgent, DefaultLimit) = <<>>
        /\ call'.only_reset_slow_memory =>
              /\ tables' = tables
              /\ \A t \in TableNames : LanceCount(tables', t) = LanceCount(tables, t)
        /\ ~call'.only_reset_slow_memory =>
              /\ ~tables'[DefaultTable].exists
              /\ \A t \in TableNames \ {DefaultTable} : tables'[t] = tables[t]]_vars

\* a default reset has run on a populated fast tier and a populated slow store
ResetKeepsFastMemoryWitness ==
    /\ call.op = "reset"
    /\ call.only_reset_slow_memory
    /\ Len(DefaultRows) >= 1
    /\ slow = <<>>

\* C2: add never changes fast memory, and a row that was not in a fast-tier
\* table before a call of the coordinator is there only after
\* last_n_consolidate or top_k_consolidate.
AddNeverWritesFast ==
    [][/\ call'.op = "add" => tables' = tables
       /\ (\E t \in TableNames : \E i \in 1..Len(tables'[t].rows) :
              tables'[t].rows[i] \notin SeqRange(tables[t].rows))
            => IsConsolidate(call'.op)]_vars

\* an add that stored an item has run while fast memory held rows
AddNeverWritesFastWitness ==
    /\ call.op = "add"
    /\ call.ret = "ADD"
    /\ Len(DefaultRows) >= 1
    /\ Len(OwnItems(slow)) >= 1

\* C3: after last_n_consolidate or top_k_consolidate, successful or failed,
\* the slow store holds the same items, with the same ids, text, metadata and
\* timestamps, as before.
ConsolidateKeepsSlow ==
    [][IsConsolidate(call'.op) => slow' = slow]_vars

\* a consolidation has failed in its push phase after pushing an item
ConsolidateKeepsSlowWitness ==
    /\ IsConsolidate(call.op)
    /\ call.err = "UpstreamError"
    /\ Len(DefaultRows) >= 1
    /\ Len(OwnItems(slow)) >= 2

(************ consolidation over a slow store that already exists *********)
ItemTexts == <<"a", "b", "c", "d", "e">>   \* the memory of the i-th stored item

\* created_at and updated_at (0: absent) of a stored item
TimePairs == {<<1, 0>>, <<2, 0>>, <<1, 2>>, <<1, 3>>}

\* the stores of up to MaxPulled items of the agent that differ in timestamps
TimedStores ==
    UNION {{[i \in 1..n |-> SlowItem(SlowBase + i, ItemTexts[i], NoneMeta,
                                     f[i][1], f[i][2], DefaultAgent)] :
              f \in [1..n -> TimePairs]} : n \in 0..MaxPulled}

\* the stores of up to MaxPulled items of the agent that differ in metadata
RankedMetas == {Dict(0), Dict(1), Dict(3), Dict(5)}
RankedStores ==
    UNION {{[i \in 1..n |-> SlowItem(SlowBase + i, ItemTexts[i], f[i], 1, 0,
                                     DefaultAgent)] :
              f \in [1..n -> RankedMetas]} : n \in 0..MaxPulled}

PLastN == LastNStep(Limits, {0})

PTopK == TopKStep(Limits, {0})

InitLastN ==
    /\ tables = [t \in TableNames |-> Absent]
    /\ slow \in TimedStores
    /\ call = NoCall

InitTopK ==
    /\ tables = [t \in TableNames |-> Absent]
    /\ slow \in RankedStores
    /\ call = NoCall

NextLastN == PLastN

NextTopK == PTopK

SpecLastN == InitLastN /\ [][NextLastN]_vars

SpecTopK == InitTopK /\ [][NextTopK]_vars

\* C6: query always queries fast memory; with fast_query=False it also
\* queries slow memory and returns, without error, the fast-memory results
\* followed by the slow store's search results.
QueryAppendsSlowResults ==
    (call.op = "query" /\ ~call.fast_query) =>
        LET fast == LanceQuery(tables, <<call.query>>, "", call.n_results)
        IN  /\ call.err = "none"
            /\ Len(call.ret) >= Len(fast)
            /\ SubSeq(call.ret, 1, Len(fast)) = fast

(************************ claims on the fast tier *************************)
\* the texts of an add, a single string being a batch of one
BatchOf(texts) == IF texts.kind = "str" THEN <<texts.val>> ELSE texts.val

\* C7: query(query_texts, table_name) on a table that does not exist returns
\* one empty result list per query text and does not raise.
QueryMissingTableGivesEmptyLists ==
    (call.op = "fast.query" /\ ~tables[call.table].exists) =>
        /\ call.err = "none"
        /\ call.ret = [i \in 1..Len(call.query_texts) |-> <<>>]

\* C8: after an add of a non-empty batch with metadata absent, a single
\* mapping or a list of equal length, get(id) of each returned id yields a
\* record whose text is the input text at the same position. Stated for the
\* adds that generate their ids, where no id can be in the table already.
AddThenGetYieldsText ==
    (call.op = "fast.add" /\ call.err = "none" /\ call.ids = <<>>) =>
        /\ Len(call.ret) = Len(BatchOf(call.texts))
        /\ \A i \in 1..Len(call.ret) :
             LET got == LanceGet(tables, call.ret[i], call.table)
             IN  Len(got) = 1 /\ got[1].text = BatchOf(call.texts)[i]

\* C9: add with explicit ids returns exactly those ids in input order, add
\* without ids returns len(texts) pairwise distinct ids, and the returned
\* list has one id per stored row, in the order of the input texts. Stated
\* for the adds that pass no ids or one id per text.
AddReturnsIdsOfStoredRows ==
    [][(/\ call'.op = "fast.add"
        /\ call'.err = "none"
        /\ call'.ids # <<>> => Len(call'.ids) = Len(BatchOf(call'.texts))) =>
        LET old == tables[call'.table].rows
            new == tables'[call'.table].rows
            ret == call'.ret
        IN  /\ call'.ids # <<>> => ret = call'.ids
            /\ call'.ids = <<>> =>
                 /\ Len(ret) = Len(BatchOf(call'.texts))
                 /\ \A i, j \in 1..Len(ret) : i # j => ret[i] # ret[j]
            /\ Len(new) = Len(old) + Len(ret)
            /\ \A i \in 1..(Len(new) - Len(old)) :
                 /\ new[Len(old) + i].id = ret[i]
                 /\ new[Len(old) + i].text = BatchOf(call'.texts)[i]]_vars

\* C10: after drop(table), count(table) returns 0; the drop of an absent
\* table reports success and changes nothing; every drop leaves the other
\* tables as they were.
DropThenCountZero ==
    [][call'.op = "fast.drop" =>
        /\ LanceCount(tables', call'.table) = 0
        /\ ~tables[call'.table].exists => (call'.ret = "True" /\ tables' = tables)
        /\ \A t \in TableNames \ {call'.table} : tables'[t] = tables[t]]_vars

\* a table that is absent was dropped again, beside a table that holds rows
DropThenCountZeroWitness ==
    /\ call.op = "fast.drop"
    /\ call.ret = "True"
    /\ ~tables[call.table].exists
    /\ \E t \in TableNames \ {call.table} : LanceCount(tables, t) >= 1

(******************* claims on the consolidation algorithms ***************)
\* the items of the agent in listing order, at most limit of them
Pulled(limit) == Take(OwnItems(slow), limit)

\* sel holds count of the pulled items, or all of them when they are fewer, no
\* item twice, ranks never rising along it, and no pulled item left out ranks
\* above a selected one; rank[id] is the rank of the item with that id
IsSelection(sel, pulled, count, rank) ==
    /\ Len(sel) = Min(count, Len(pulled))
    /\ \A i \in 1..Len(sel) : \E j \in 1..Len(pulled) : pulled[j] = sel[i]
    /\ \A i, j \in 1..Len(sel) : i # j => sel[i].id # sel[j].id
    /\ \A i, j \in 1..Len(sel) : i < j => rank[sel[i].id] >= rank[sel[j].id]
    /\ \A j \in 1..Len(pulled) :
         pulled[j] \notin SeqRange(sel)
           => \A i \in 1..Len(sel) : rank[sel[i].id] >= rank[pulled[j].id]

\* the step appended to the default table one row per item of sel, in order,
\* each holding that item's text
PushedInOrder(sel) ==
    LET old == tables[DefaultTable].rows
        new == tables'[DefaultTable].rows
    IN  /\ Len(new) = Len(old) + Len(sel)
        /\ SubSeq(new, 1, Len(old)) = old
        /\ \A i \in 1..Len(sel) : new[Len(old) + i].text = sel[i].memory

\* the time last_n_consolidate ranks an item by
Recency(x) == IF x.updated_at = 0 THEN x.created_at ELSE x.updated_at
RecencyOf(items) == [id \in {x.id : x \in SeqRange(items)} |->
                       Recency(CHOOSE x \in SeqRange(items) : x.id = id)]

\* C4: last_n_consolidate(n, limit) returns, and pushes into fast memory in
\* the same order, the first n of the at most limit pulled items sorted
\* descending by updated_at, with created_at standing in for an absent
\* updated_at.
LastNSelectsMostRecent ==
    [][(call'.op = "last_n_consolidate" /\ call'.err = "none") =>
        /\ IsSelection(call'.ret, Pulled(call'.limit), call'.n,
                       RecencyOf(Pulled(call'.limit)))
        /\ PushedInOrder(call'.ret)]_vars

\* n = 2 of three items: an updated item comes first although it was created
\* before the second, and the oldest item is left out
LastNSelectsMostRecentWitness ==
    /\ call.op = "last_n_consolidate"
    /\ call.err = "none"
    /\ call.n = 2
    /\ Len(slow) = 3
    /\ Len(call.ret) = 2
    /\ call.ret[1].updated_at # 0
    /\ call.ret[1].created_at < call.ret[2].created_at
    /\ call.ret[2] = slow[3]
    /\ Len(DefaultRows) = 2

\* the rank top_k_consolidate orders by: the priority, negated when ascending
PriorityOf(items, reverse) ==
    [id \in {x.id : x \in SeqRange(items)} |->
        LET p == (CHOOSE x \in SeqRange(items) : x.id = id).metadata.priority
        IN  IF reverse THEN p ELSE 0 - p]

\* C5: top_k_consolidate(k, metadata_key, reverse, limit) returns the first k
\* of the at most limit pulled items sorted by metadata[metadata_key],
\* ascending when reverse is False and descending when it is True, and pushes
\* them in that order.
TopKSelectsByMetadata ==
    [][(call'.op = "top_k_consolidate" /\ call'.err = "none") =>
        /\ IsSelection(call'.ret, Pulled(call'.limit), call'.k,
                       PriorityOf(Pulled(call'.limit), call'.reverse))
        /\ PushedInOrder(call'.ret)]_vars

\* k = 1 with reverse=True over the priorities 1, 5, 3 selects the 5 alone
TopKSelectsByMetadataWitness ==
    /\ call.op = "top_k_consolidate"
    /\ call.err = "none"
    /\ call.k = 1
    /\ call.reverse
    /\ Len(slow) = 3
    /\ [i \in 1..3 |-> slow[i].metadata.priority] = <<1, 5, 3>>
    /\ Len(call.ret) = 1
    /\ call.ret[1] = slow[2]

(****************** further claims on the coordinator *********************)
\* C11: prompt_based_consolidate(prompt) signals not-implemented for every
\* prompt and in every state, never returns normally, and leaves the slow
\* store and fast memory as they were.
PromptBasedNeverSucceeds ==
    [][call'.op = "prompt_based_consolidate" =>
        /\ call'.err = "NotImplementedError"
        /\ tables' = tables
        /\ slow' = slow]_vars

\* prompt_based_consolidate was called with both tiers populated
PromptBasedNeverSucceedsWitness ==
    /\ call.op = "prompt_based_consolidate"
    /\ call.err = "NotImplementedError"
    /\ Len(DefaultRows) >= 1
    /\ Len(OwnItems(slow)) >= 1

\* the items of the agents other than the configured one, in listing order
OtherItems(store) == SelectSeq(store, LAMBDA x : x.agent_id # DefaultAgent)

\* C13: after reset() on a store configured with an agent_id, that agent's
\* slow-tier items are gone and the items of every other agent sharing the
\* backing store are unchanged.
ResetScopedToAgent ==
    [][call'.op = "reset" =>
        /\ OwnItems(slow') = <<>>
        /\ OtherItems(slow') = OtherItems(slow)]_vars

\* the items the consolidation of the call selects from the slow store
SelectedBy(c) ==
    IF c.op = "last_n_consolidate" THEN LastNItems(Pulled(c.limit), c.n)
    ELSE TopKItems(Pulled(c.limit), c.k, c.reverse)

ItemIds(store) == {store[i].id : i \in 1..Len(store)}

\* C18: a successful last_n_consolidate(n) or top_k_consolidate(k) leaves the
\* slow store as it was and appends to the default table one row per selected
\* item, min(n or k, items pulled) in all, each holding the item's text under
\* a newly generated id that is not the id of a slow-tier item nor of a row
\* already there; a second run therefore adds the selected items again.
ConsolidationCopies ==
    [][(IsConsolidate(call'.op) /\ call'.err = "none") =>
        LET sel == call'.ret
            count == IF call'.op = "last_n_consolidate" THEN call'.n ELSE call'.k
            old == tables[DefaultTable].rows
            new == tables'[DefaultTable].rows
        IN  /\ slow' = slow
            /\ Len(sel) = Min(count, Len(Pulled(call'.limit)))
            /\ LanceCount(tables', "") = LanceCount(tables, "") + Len(sel)
            /\ SubSeq(new, 1, Len(old)) = old
            /\ \A i \in 1..Len(sel) :
                 /\ new[Len(old) + i].text = sel[i].memory
                 /\ new[Len(old) + i].id # sel[i].id
                 /\ new[Len(old) + i].id \notin ItemIds(slow)
                 /\ \A m \in 1..(Len(old) + i - 1) : new[m].id # new[Len(old) + i].id]_vars

\* the same consolidation ran twice over a store of one item: fast memory
\* holds two copies of it under two ids
ConsolidationCopiesWitness ==
    /\ IsConsolidate(call.op)
    /\ call.err = "none"
    /\ Len(OwnItems(slow)) = 1
    /\ Len(call.ret) = 1
    /\ Len(DefaultRows) = 2
    /\ DefaultRows[1].text = call.ret[1].memory
    /\ DefaultRows[2].text = call.ret[1].memory
    /\ DefaultRows[1].id # DefaultRows[2].id

\* C19: the row last_n_consolidate creates for a selected item carries no
\* metadata, whereas the row top_k_consolidate creates for a selected item
\* keeps that item's slow-tier metadata.
TopKKeepsMetadata ==
    [][(IsConsolidate(call'.op) /\ call'.err = "none") =>
        LET sel == call'.ret
            old == tables[DefaultTable].rows
            new == tables'[DefaultTable].rows
        IN  /\ Len(new) = Len(old) + Len(sel)
            /\ \A i \in 1..Len(sel) :
                 new[Len(old) + i].metadata =
                    IF call'.op = "last_n_consolidate" THEN NoneMeta
                    ELSE sel[i].metadata]_vars

\* C19 as amended: the row either consolidation creates for a selected item
\* carries no metadata, whatever metadata the slow-tier item has.
BothConsolidationsDropMetadata ==
    [][(IsConsolidate(call'.op) /\ call'.err = "none") =>
        LET sel == call'.ret
            old == tables[DefaultTable].rows
            new == tables'[DefaultTable].rows
        IN  /\ Len(new) = Len(old) + Len(sel)
            /\ \A i \in 1..Len(sel) : new[Len(old) + i].metadata = NoneMeta]_vars

\* top_k_consolidate copied an item that has a priority into a row without
\* metadata
BothConsolidationsDropMetadataWitness ==
    /\ call.op = "top_k_consolidate"
    /\ call.err = "none"
    /\ Len(call.ret) = 1
    /\ call.ret[1].metadata = Dict(1)
    /\ Len(DefaultRows) >= 1
    /\ DefaultRows[Len(DefaultRows)].text = call.ret[1].memory
    /\ DefaultRows[Len(DefaultRows)].metadata = NoneMeta

(********************* further claims on the fast tier ********************)
\* C12: after any sequence of fast-tier add, delete and drop calls, adds
\* with explicit ids included, no two rows of one fast-tier table share an id.
FastIdsUnique ==
    \A t \in TableNames : \A i, j \in 1..Len(tables[t].rows) :
        i # j => tables[t].rows[i].id # tables[t].rows[j].id

\* C15: add with a metadata list whose length differs from the number of
\* texts fails with an assertion error before any write: no table is created
\* and no row is added.
MismatchedMetadataAsserts ==
    [][(/\ call'.op = "fast.add"
        /\ call'.metadata.kind = "list"
        /\ Len(call'.metadata.val) # Len(BatchOf(call'.texts))) =>
        /\ call'.err = "AssertionError"
        /\ tables' = tables]_vars

\* an add of one text with two metadata entries was refused while a table
\* held rows and the target table did not exist
MismatchedMetadataAssertsWitness ==
    /\ call.op = "fast.add"
    /\ call.err = "AssertionError"
    /\ Len(call.metadata.val) = 2
    /\ Len(BatchOf(call.texts)) = 1
    /\ ~tables[call.table].exists
    /\ \E t \in TableNames : LanceCount(tables, t) >= 1

\* the row is one the delete call c is to remove
DeleteMatches(c, r) ==
    IF c.op = "fast.delete" THEN r.id = c.record_id
    ELSE r.metadata.kind = "dict" /\ r.metadata.priority = c.value

\* C16: delete and delete_by_metadata on a table that does not exist report
\* True, raise nothing, create nothing and change no table; on an existing
\* table they remove exactly the rows that match and keep the others, in
\* their order; no other table changes.
DeleteRemovesOnlyMatches ==
    [][call'.op \in {"fast.delete", "fast.delete_by_metadata"} =>
        LET t == call'.table
            old == tables[t].rows
            new == tables'[t].rows
        IN  /\ call'.err = "none"
            /\ ~tables[t].exists => (call'.ret = "True" /\ tables' = tables)
            /\ tables[t].exists =>
                 /\ tables'[t].exists
                 /\ \A i \in 1..Len(new) : ~DeleteMatches(call', new[i])
                 /\ new = SelectSeq(old, LAMBDA r : r \in SeqRange(new))
                 /\ \A i \in 1..Len(old) :
                      ~DeleteMatches(call', old[i]) => old[i] \in SeqRange(new)
            /\ \A u \in TableNames \ {t} : tables'[u] = tables[u]]_vars

\* a delete on a table that does not exist reported True beside a table that
\* holds rows
DeleteRemovesOnlyMatchesWitness ==
    /\ call.op = "fast.delete"
    /\ call.ret = "True"
    /\ ~tables[call.table].exists
    /\ \E t \in TableNames \ {call.table} : LanceCount(tables, t) >= 1

\* C17: a successful add never overwrites a table: an absent target is
\* created holding exactly the new rows, an existing one keeps every row it
\* had, in place, with the new rows after them; count grows by the number of
\* rows added, and every other table is unchanged.
AddNeverOverwrites ==
    [][(call'.op = "fast.add" /\ call'.err = "none") =>
        LET t == call'.table
            old == tables[t].rows
            new == tables'[t].rows
            added == Len(new) - Len(old)
        IN  /\ tables'[t].exists
            /\ ~tables[t].exists => old = <<>>
            /\ added \in 1..Len(BatchOf(call'.texts))
            /\ SubSeq(new, 1, Len(old)) = old
            /\ \A i \in 1..added :
                 /\ new[Len(old) + i].text = BatchOf(call'.texts)[i]
                 /\ new[Len(old) + i].id = call'.ret[i]
            /\ LanceCount(tables', t) = LanceCount(tables, t) + added
            /\ \A u \in TableNames \ {t} : tables'[u] = tables[u]]_vars

\* an add of one text went to a table that held a row: the old row is first,
\* the new row second
AddNeverOverwritesWitness ==
    /\ call.op = "fast.add"
    /\ call.err = "none"
    /\ call.ids = <<>>
    /\ call.texts.kind = "str"
    /\ Len(tables[call.table].rows) = 2
    /\ tables[call.table].rows[2].id = call.ret[1]
    /\ tables[call.table].rows[1].id # call.ret[1]

====
